---- MODULE Spec2Model ----
(***************************************************************************)
(* Model of streamlit_app.py: the Unicode/URL sanitization pipeline        *)
(* (_normalize_unicode_text, _clean_url, _sanitize_md_links,               *)
(* _sanitize_bare_urls, _final_sanitize) and the "Create Due Diligence     *)
(* Report" action that polls the background job, retrieves its text,       *)
(* sanitizes it and renders it.                                            *)
(*                                                                         *)
(* A text is a sequence of characters.  An ASCII character is the string   *)
(* holding it; any other code point is the string "U+XXXX".                *)
(***************************************************************************)
EXTENDS Integers, Sequences, FiniteSets, TLC

VARIABLES
    \* ---- the report action (Spec) ----
    pc,               \* position of the script run
    pct,              \* the local pct of the polling loop
    bar,              \* the value last passed to the progress bar
    elapsed,          \* time.time() - started, in whole seconds
    status,           \* the job status last observed by the loop
    job,              \* the job object last fetched
    output_text,      \* the retrieved text: <<>> is None, <<t>> is the string t
    sanitized_output, \* what _final_sanitize returned: <<>> before the call
    rendered,         \* what st.markdown was given: <<>> when nothing was
    sanitize_calls,   \* how many times _final_sanitize was invoked
    \* ---- the pipeline applied stage by stage (SpecSanitize) ----
    md_text,          \* the input of _final_sanitize
    normalized,       \* t after _normalize_unicode_text
    linked,           \* t after _sanitize_md_links
    sanitized,        \* t after _sanitize_bare_urls: the result
    resanitized,      \* _final_sanitize of the result
    stage,            \* how far the pipeline has run
    \* ---- the canonicalizer alone (SpecCleanUrl) ----
    url,              \* the input of _clean_url
    cleaned,          \* its result
    url_stage

vars == <<pc, pct, bar, elapsed, status, job, output_text, sanitized_output,
          rendered, sanitize_calls, md_text, normalized, linked, sanitized,
          resanitized, stage, url, cleaned, url_stage>>

appVars == <<pc, pct, bar, elapsed, status, job, output_text,
             sanitized_output, rendered, sanitize_calls>>
textVars == <<md_text, normalized, linked, sanitized, resanitized, stage>>
urlVars == <<url, cleaned, url_stage>>

----------------------------------------------------------------------------
(* Characters *)

\* the members of the character class [_ZERO_WIDTH_BIDI]
_ZERO_WIDTH_BIDI ==
    {"U+200B", "U+200C", "U+200D", "U+2060", "U+FEFF", "U+200E", "U+200F",
     "U+061C", "U+202A", "U+202B", "U+202C", "U+202D", "U+202E",
     "U+2066", "U+2067", "U+2068", "U+2069"}

_UNICODE_SPACES ==
    {"U+00A0", "U+1680", "U+180E", "U+2000", "U+2001", "U+2002", "U+2003",
     "U+2004", "U+2005", "U+2006", "U+2007", "U+2008", "U+2009", "U+200A",
     "U+202F", "U+205F", "U+3000"}

\* the keys of the translation table: en dash, em dash, figure dash, minus, "-"
_DASHES_FOR_URL == {"U+2013", "U+2014", "U+2012", "U+2212", "-"}

SoftHyphen == "U+00AD"
Newline == "U+000A"
Tab == "U+0009"

\* regex \w on str: the alphanumerics and the underscore
WordChars ==
    {"a", "b", "c", "d", "e", "f", "g", "h", "i", "j", "k", "l", "m", "n",
     "o", "p", "q", "r", "s", "t", "u", "v", "w", "x", "y", "z",
     "A", "B", "C", "D", "E", "F", "G", "H", "I", "J", "K", "L", "M", "N",
     "O", "P", "Q", "R", "S", "T", "U", "V", "W", "X", "Y", "Z",
     "0", "1", "2", "3", "4", "5", "6", "7", "8", "9", "_"}

\* regex \s on str: the characters for which str.isspace() holds
SpaceChars ==
    {" ", Tab, Newline, "U+000B", "U+000C", "U+000D", "U+001C", "U+001D",
     "U+001E", "U+001F", "U+0085", "U+00A0", "U+1680", "U+2000", "U+2001",
     "U+2002", "U+2003", "U+2004", "U+2005", "U+2006", "U+2007", "U+2008",
     "U+2009", "U+200A", "U+2028", "U+2029", "U+202F", "U+205F", "U+3000"}

\* the class [,.;:!?] of the last normalizer step
SpacedPunctuation == {",", ".", ";", ":", "!", "?"}

\* the class [),.;:!?] of the last canonicalizer step
TrailingPunctuation == {")", ",", ".", ";", ":", "!", "?"}

\* the class [EN DASH, EM DASH, -] of the dash-spacing step
SpacedDashes == {"U+2013", "U+2014", "-"}

IsWord(c) == c \in WordChars
IsSpace(c) == c \in SpaceChars

\* re.IGNORECASE on the letters of "text"
Lower(c) ==
    CASE c = "T" -> "t"
      [] c = "E" -> "e"
      [] c = "X" -> "x"
      [] OTHER -> c

----------------------------------------------------------------------------
(* unicodedata.normalize("NFKC", s) *)

\* the compatibility mapping of one code point; every other character the
\* model draws is its own NFKC form
NFKCChar(c) ==
    CASE c \in {"U+00A0", "U+2000", "U+2001", "U+2002", "U+2003", "U+2004",
                "U+2005", "U+2006", "U+2007", "U+2008", "U+2009", "U+200A",
                "U+202F", "U+205F", "U+3000"} -> <<" ">>
      [] c = "U+FF0D" -> <<"-">>
      [] c = "U+FF0E" -> <<".">>
      [] c = "U+2026" -> <<".", ".", ".">>
      [] c = "U+2011" -> <<"U+2010">>
      [] OTHER -> <<c>>

RECURSIVE NFKCFrom(_, _)
NFKCFrom(s, i) ==
    IF i > Len(s) THEN <<>> ELSE NFKCChar(s[i]) \o NFKCFrom(s, i + 1)

NFKC(s) == NFKCFrom(s, 1)

----------------------------------------------------------------------------
(* Helpers for the regular expressions *)

\* the index of the last character of the maximal run of members of cls that
\* starts at i (i - 1 when s[i] is no member)
RECURSIVE RunEnd(_, _, _)
RunEnd(s, i, cls) ==
    IF i <= Len(s) /\ s[i] \in cls THEN RunEnd(s, i + 1, cls) ELSE i - 1

\* the index of the first member of cls at or after i (Len(s) + 1 when none)
RECURSIVE FirstIn(_, _, _)
FirstIn(s, i, cls) ==
    IF i > Len(s) \/ s[i] \in cls THEN i ELSE FirstIn(s, i + 1, cls)

\* s[i..j], empty when j < i
Slice(s, i, j) == IF j < i THEN <<>> ELSE SubSeq(s, i, j)

\* str.replace(c, by) for one character c and a replacement text
RECURSIVE ReplaceFrom(_, _, _, _)
ReplaceFrom(s, i, cls, by) ==
    IF i > Len(s) THEN <<>>
    ELSE (IF s[i] \in cls THEN by ELSE <<s[i]>>) \o ReplaceFrom(s, i + 1, cls, by)

----------------------------------------------------------------------------
(* _normalize_unicode_text *)

\* a variant that knows the no-break space only
ReplaceNoBreakSpaces(s) == ReplaceFrom(s, 1, {"U+00A0"}, <<" ">>)

\* for sp in _UNICODE_SPACES: s = s.replace(sp, " ")
ReplaceUnicodeSpaces(s) == ReplaceFrom(s, 1, _UNICODE_SPACES, <<" ">>)

\* re.sub(r"(?<=\w)[ZW]+(?=\w)", " ", s)
RECURSIVE BridgeFrom(_, _)
BridgeFrom(s, i) ==
    IF i > Len(s) THEN <<>>
    ELSE LET j == RunEnd(s, i, _ZERO_WIDTH_BIDI) IN
         IF /\ j >= i
            /\ i > 1 /\ IsWord(s[i - 1])
            /\ j < Len(s) /\ IsWord(s[j + 1])
         THEN <<" ">> \o BridgeFrom(s, j + 1)
         ELSE <<s[i]>> \o BridgeFrom(s, i + 1)

BridgeZeroWidth(s) == BridgeFrom(s, 1)

\* re.sub(_ZERO_WIDTH_BIDI_CLASS, "", s)
RemoveZeroWidth(s) == ReplaceFrom(s, 1, _ZERO_WIDTH_BIDI, <<>>)

\* s.replace(SOFT HYPHEN, "")
RemoveSoftHyphens(s) == ReplaceFrom(s, 1, {SoftHyphen}, <<>>)

\* (?<=[\w\)\]])  and  (?=[\w\(\[])
DashBefore(c) == IsWord(c) \/ c \in {")", "]"}
DashAfter(c) == IsWord(c) \/ c \in {"(", "["}

\* whether position i of s holds a member of dashes directly between a
\* word/closing-bracket character and a word/opening-bracket character
TightDashAt(s, i, dashes) ==
    /\ s[i] \in dashes
    /\ i > 1 /\ DashBefore(s[i - 1])
    /\ i < Len(s) /\ DashAfter(s[i + 1])

\* re.sub(r"(?<=[\w\)\]])([EN DASH, EM DASH, -])(?=[\w\(\[])", r" \1 ", s)
RECURSIVE DashFrom(_, _, _)
DashFrom(s, i, dashes) ==
    IF i > Len(s) THEN <<>>
    ELSE (IF TightDashAt(s, i, dashes) THEN <<" ", s[i], " ">> ELSE <<s[i]>>)
         \o DashFrom(s, i + 1, dashes)

\* a variant whose class holds the ASCII hyphen only
SpaceAsciiDashes(s) == DashFrom(s, 1, {"-"})

SpaceDashes(s) == DashFrom(s, 1, SpacedDashes)

\* re.sub(r"[ \t]{2,}", " ", s)
RECURSIVE CollapseFrom(_, _)
CollapseFrom(s, i) ==
    IF i > Len(s) THEN <<>>
    ELSE LET j == RunEnd(s, i, {" ", Tab}) IN
         IF j >= i + 1
         THEN <<" ">> \o CollapseFrom(s, j + 1)
         ELSE <<s[i]>> \o CollapseFrom(s, i + 1)

CollapseSpaces(s) == CollapseFrom(s, 1)

\* re.sub(r" +([,.;:!?])", r"\1", s)
RECURSIVE TidyFrom(_, _)
TidyFrom(s, i) ==
    IF i > Len(s) THEN <<>>
    ELSE LET j == RunEnd(s, i, {" "}) IN
         IF j >= i /\ j < Len(s) /\ s[j + 1] \in SpacedPunctuation
         THEN <<s[j + 1]>> \o TidyFrom(s, j + 2)
         ELSE <<s[i]>> \o TidyFrom(s, i + 1)

TidyPunctuation(s) == TidyFrom(s, 1)

_normalize_unicode_text(s) ==
    IF s = <<>> THEN s
    ELSE TidyPunctuation(CollapseSpaces(SpaceDashes(RemoveSoftHyphens(
             RemoveZeroWidth(BridgeZeroWidth(ReplaceUnicodeSpaces(NFKC(s))))))))

----------------------------------------------------------------------------
(* _clean_url *)

\* whether the literal lit stands in s at position i, letters compared
\* without case
StartsWith(s, i, lit) ==
    /\ i + Len(lit) - 1 <= Len(s)
    /\ \A k \in 1..Len(lit) : Lower(s[i + k - 1]) = lit[k]

\* the position after a run \s* that starts at i
SkipSpaces(s, i) == RunEnd(s, i, SpaceChars) + 1

\* a match of  #\s*:\s*~\s*:\s*text\s*=.*$  (re.IGNORECASE) that starts at i:
\* its last position, or 0 when there is none.  "." stops at a newline and
\* "$" holds at the end of the text or before a newline that ends it.
FragmentMatchEnd(s, i) ==
    IF ~StartsWith(s, i, <<"#">>) THEN 0
    ELSE LET p1 == SkipSpaces(s, i + 1) IN
    IF ~StartsWith(s, p1, <<":">>) THEN 0
    ELSE LET p2 == SkipSpaces(s, p1 + 1) IN
    IF ~StartsWith(s, p2, <<"~">>) THEN 0
    ELSE LET p3 == SkipSpaces(s, p2 + 1) IN
    IF ~StartsWith(s, p3, <<":">>) THEN 0
    ELSE LET p4 == SkipSpaces(s, p3 + 1) IN
    IF ~StartsWith(s, p4, <<"t", "e", "x", "t">>) THEN 0
    ELSE LET p5 == SkipSpaces(s, p4 + 4) IN
    IF ~StartsWith(s, p5, <<"=">>) THEN 0
    ELSE LET k == FirstIn(s, p5 + 1, {Newline}) IN
         IF k > Len(s) THEN Len(s)
         ELSE IF k = Len(s) THEN k - 1
         ELSE 0

\* re.sub(r"#\s*:\s*~\s*:\s*text\s*=.*$", "", u, flags=re.IGNORECASE)
RECURSIVE FragmentFrom(_, _)
FragmentFrom(s, i) ==
    IF i > Len(s) THEN <<>>
    ELSE LET e == FragmentMatchEnd(s, i) IN
         IF e > 0 THEN Slice(s, e + 1, Len(s))
         ELSE <<s[i]>> \o FragmentFrom(s, i + 1)

RemoveTextFragment(s) == FragmentFrom(s, 1)

\* re.sub(r"\s+", "", u)
RemoveWhitespace(s) == ReplaceFrom(s, 1, SpaceChars, <<>>)

\* u.translate(_DASHES_FOR_URL)
TranslateDashes(s) == ReplaceFrom(s, 1, _DASHES_FOR_URL, <<"-">>)

\* the first position of the run of members of cls that ends at e
RECURSIVE RunStart(_, _, _)
RunStart(s, e, cls) ==
    IF e >= 1 /\ s[e] \in cls THEN RunStart(s, e - 1, cls) ELSE e + 1

\* a variant without the "+": one trailing character is removed
StripOneTrailingPunctuation(s) ==
    LET e == IF Len(s) > 0 /\ s[Len(s)] = Newline THEN Len(s) - 1 ELSE Len(s)
    IN  IF e >= 1 /\ s[e] \in TrailingPunctuation
        THEN Slice(s, 1, e - 1) \o Slice(s, e + 1, Len(s))
        ELSE s

\* re.sub(r"[),.;:!?]+$", "", u): the run that ends where "$" holds
StripTrailingPunctuation(s) ==
    LET e == IF Len(s) > 0 /\ s[Len(s)] = Newline THEN Len(s) - 1 ELSE Len(s)
        b == RunStart(s, e, TrailingPunctuation)
    IN  Slice(s, 1, b - 1) \o Slice(s, e + 1, Len(s))

_clean_url(u) ==
    IF u = <<>> THEN u
    ELSE StripTrailingPunctuation(TranslateDashes(RemoveSoftHyphens(
             RemoveWhitespace(RemoveTextFragment(NFKC(u))))))

----------------------------------------------------------------------------
(* _sanitize_md_links, _sanitize_bare_urls, _final_sanitize *)

\* a match of  \[([^\]]+)\]\(([^)]+)\)  that starts at i: the positions of
\* its "]" and of its ")", or <<0, 0>> when there is none
MdLinkMatch(s, i) ==
    IF s[i] # "[" THEN <<0, 0>>
    ELSE LET j == FirstIn(s, i + 1, {"]"}) IN
         IF ~(j > i + 1 /\ j < Len(s) /\ s[j + 1] = "(") THEN <<0, 0>>
         ELSE LET k == FirstIn(s, j + 2, {")"}) IN
              IF k > j + 2 /\ k <= Len(s) THEN <<j, k>> ELSE <<0, 0>>

\* re.sub(r"\[([^\]]+)\]\(([^)]+)\)", repl, md)
RECURSIVE MdLinksFrom(_, _)
MdLinksFrom(s, i) ==
    IF i > Len(s) THEN <<>>
    ELSE LET m == MdLinkMatch(s, i) IN
         IF m[1] > 0
         THEN <<"[">> \o Slice(s, i + 1, m[1] - 1) \o <<"]", "(">>
              \o _clean_url(Slice(s, m[1] + 2, m[2] - 1)) \o <<")">>
              \o MdLinksFrom(s, m[2] + 1)
         ELSE <<s[i]>> \o MdLinksFrom(s, i + 1)

_sanitize_md_links(md) == MdLinksFrom(md, 1)

\* the class [^\s)\]\}>] is the complement of this set
BareUrlStop == SpaceChars \cup {")", "]", "}", ">"}

\* whether the case-sensitive literal lit stands in s at position i
Literal(s, i, lit) ==
    /\ i + Len(lit) - 1 <= Len(s)
    /\ \A k \in 1..Len(lit) : s[i + k - 1] = lit[k]

\* a match of  https?://[^\s)\]\}>]+  that starts at i: its last position,
\* or 0 when there is none
BareUrlMatchEnd(s, i) ==
    IF ~Literal(s, i, <<"h", "t", "t", "p">>) THEN 0
    ELSE LET p == IF Literal(s, i + 4, <<"s">>) THEN i + 5 ELSE i + 4 IN
         IF ~Literal(s, p, <<":", "/", "/">>) THEN 0
         ELSE LET e == FirstIn(s, p + 3, BareUrlStop) - 1 IN
              IF e >= p + 3 THEN e ELSE 0

\* re.sub(r"https?://[^\s)\]\}>]+", repl, md)
RECURSIVE BareUrlsFrom(_, _)
BareUrlsFrom(s, i) ==
    IF i > Len(s) THEN <<>>
    ELSE LET e == BareUrlMatchEnd(s, i) IN
         IF e > 0
         THEN _clean_url(Slice(s, i, e)) \o BareUrlsFrom(s, e + 1)
         ELSE <<s[i]>> \o BareUrlsFrom(s, i + 1)

_sanitize_bare_urls(md) == BareUrlsFrom(md, 1)

_final_sanitize(md) ==
    _sanitize_bare_urls(_sanitize_md_links(_normalize_unicode_text(md)))

----------------------------------------------------------------------------
(* Inputs *)

MaxPieces == 3
MaxUrlPieces == 3

\* the texts made of at most n pieces of P, one after the other
RECURSIVE Frags(_, _)
Frags(P, n) ==
    IF n = 0 THEN {<<>>}
    ELSE LET F == Frags(P, n - 1) IN F \cup {f \o p : f \in F, p \in P}

HttpA == <<"h", "t", "t", "p", ":", "/", "/", "a">>

\* free text: a bare URL, a word character, dashes the normalizer spaces and
\* dashes it does not, a bracket, invisible characters, spaces, punctuation
PlainPieces ==
    {HttpA, <<"a">>, <<"-">>, <<"U+2013">>, <<"U+2012">>, <<"U+FF0D">>,
     <<")">>, <<"U+200B">>, <<"U+1680">>, <<" ">>, <<".">>}

\* labels and targets of Markdown links
Labels == {<<"a">>, HttpA \o <<".">>, <<"a", "U+200B", "a">>}
TargetPieces == {HttpA, <<".">>, <<"]">>, <<"-">>}

MdLink(label, target) == <<"[">> \o label \o <<"]", "(">> \o target \o <<")">>

Texts ==
    Frags(PlainPieces, MaxPieces)
        \cup {MdLink(l, u) : l \in Labels,
                             u \in Frags(TargetPieces, MaxPieces) \ {<<>>}}

\* raw URL strings: a scheme, the halves of a text fragment in two letter
\* cases, a soft hyphen, whitespace, punctuation, a dash, an ellipsis
UrlPieces ==
    {HttpA, <<"#", ":">>, <<"~", ":", "t", "e", "x", "t", "=">>,
     <<"~", ":", "T", "E", "X", "T", "=">>, <<SoftHyphen>>, <<Newline>>,
     <<" ">>, <<".">>, <<")">>, <<"U+2013">>, <<"U+2026">>}

Urls == Frags(UrlPieces, MaxUrlPieces)

----------------------------------------------------------------------------
(* The pipeline, stage by stage: _final_sanitize on one input *)

TextIdle ==
    /\ md_text = <<>> /\ normalized = <<>> /\ linked = <<>>
    /\ sanitized = <<>> /\ resanitized = <<>> /\ stage = "idle"

UrlIdle == url = <<>> /\ cleaned = <<>> /\ url_stage = "idle"

AppIdle ==
    /\ pc = "idle" /\ pct = 0 /\ bar = <<>> /\ elapsed = 0
    /\ status = "none" /\ job = <<>> /\ output_text = <<>>
    /\ sanitized_output = <<>> /\ rendered = <<>> /\ sanitize_calls = 0

InitSanitize ==
    /\ md_text \in Texts
    /\ normalized = <<>> /\ linked = <<>> /\ sanitized = <<>>
    /\ resanitized = <<>> /\ stage = "raw"
    /\ UrlIdle /\ AppIdle

\* t = _normalize_unicode_text(md_text)
Normalize ==
    /\ stage = "raw"
    /\ normalized' = _normalize_unicode_text(md_text)
    /\ stage' = "normalized"
    /\ UNCHANGED <<md_text, linked, sanitized, resanitized>>
    /\ UNCHANGED <<appVars, urlVars>>

\* t = _sanitize_md_links(t)
SanitizeMdLinks ==
    /\ stage = "normalized"
    /\ linked' = _sanitize_md_links(normalized)
    /\ stage' = "linked"
    /\ UNCHANGED <<md_text, normalized, sanitized, resanitized>>
    /\ UNCHANGED <<appVars, urlVars>>

\* t = _sanitize_bare_urls(t); return t
SanitizeBareUrls ==
    /\ stage = "linked"
    /\ sanitized' = _sanitize_bare_urls(linked)
    /\ stage' = "sanitized"
    /\ UNCHANGED <<md_text, normalized, linked, resanitized>>
    /\ UNCHANGED <<appVars, urlVars>>

\* a second call of _final_sanitize, on the result of the first
SanitizeAgain ==
    /\ stage = "sanitized"
    /\ resanitized' = _final_sanitize(sanitized)
    /\ stage' = "resanitized"
    /\ UNCHANGED <<md_text, normalized, linked, sanitized>>
    /\ UNCHANGED <<appVars, urlVars>>

NextSanitize ==
    \/ Normalize
    \/ SanitizeMdLinks
    \/ SanitizeBareUrls
    \/ SanitizeAgain

SpecSanitize == InitSanitize /\ [][NextSanitize]_vars

----------------------------------------------------------------------------
(* _clean_url on one input *)

InitCleanUrl ==
    /\ url \in Urls /\ cleaned = <<>> /\ url_stage = "raw"
    /\ TextIdle /\ AppIdle

CleanUrl ==
    /\ url_stage = "raw"
    /\ cleaned' = _clean_url(url)
    /\ url_stage' = "cleaned"
    /\ UNCHANGED url
    /\ UNCHANGED <<appVars, textVars>>

NextCleanUrl == CleanUrl

SpecCleanUrl == InitCleanUrl /\ [][NextCleanUrl]_vars

----------------------------------------------------------------------------
(* The report action: submit, poll, retrieve, sanitize, render *)

PollInterval == 3
PendingBase == 10
PendingDivisor == 4
PendingCap == 95
OtherCap == 98
InitialPct == 5
FullPct == 100

\* the clock stops advancing here, and a fetch takes 0 or SlowFetch seconds
MaxElapsed == 360
SlowFetch == 170

Min(a, b) == IF a <= b THEN a ELSE b
Max(a, b) == IF a >= b THEN a ELSE b

PendingStatuses == {"queued", "in_progress", "unknown"}
FailedStatuses == {"failed", "cancelled", "errored"}
\* statuses the loop names in no branch
OtherStatuses == {"incomplete"}

\* str.strip()
Strip(s) ==
    LET b == RunEnd(s, 1, SpaceChars) + 1
        e == RunStart(s, Len(s), SpaceChars) - 1
    IN  Slice(s, b, e)

\* "\n".join(chunks)
RECURSIVE JoinFrom(_, _)
JoinFrom(chunks, i) ==
    IF i > Len(chunks) THEN <<>>
    ELSE IF i = Len(chunks) THEN chunks[i]
    ELSE chunks[i] \o <<Newline>> \o JoinFrom(chunks, i + 1)

JoinLines(chunks) == JoinFrom(chunks, 1)

\* the texts of the "output_text" parts of one item's content
RECURSIVE PartTexts(_, _)
PartTexts(content, i) ==
    IF i > Len(content) THEN <<>>
    ELSE (IF content[i].type = "output_text" THEN <<content[i].text>> ELSE <<>>)
         \o PartTexts(content, i + 1)

\* the chunks collected from the items of type "message"
RECURSIVE Chunks(_, _)
Chunks(output, i) ==
    IF i > Len(output) THEN <<>>
    ELSE (IF output[i].type = "message" THEN PartTexts(output[i].content, 1)
          ELSE <<>>)
         \o Chunks(output, i + 1)

\* the final text of a job: its output_text, or else the joined chunks, or
\* None when walking the output raises.  <<>> is None, <<t>> the string t.
RetrievedText(j) ==
    IF j.output_text # <<>> /\ j.output_text[1] # <<>> THEN j.output_text
    ELSE IF j.raises THEN <<>>
    ELSE <<Strip(JoinLines(Chunks(j.output, 1)))>>

\* texts a completed job may carry
OutputTexts ==
    {<<"a", "-", "a">>, HttpA \o <<".", " ", "U+200B">>,
     MdLink(<<"a">>, HttpA \o <<"U+2013", "a">>)}

MessageItem(t) ==
    [type |-> "message", content |-> <<[type |-> "output_text", text |-> t]>>]
ReasoningItem == [type |-> "reasoning", content |-> <<>>]
RefusalItem ==
    [type |-> "message", content |-> <<[type |-> "refusal", text |-> <<"a">>]>>]

Outputs ==
    {<<>>, <<ReasoningItem>>, <<RefusalItem>>,
     <<ReasoningItem, MessageItem(<<"a", "-", "a">>)>>,
     <<MessageItem(<<" ">>)>>,
     <<MessageItem(HttpA), MessageItem(<<".", Newline>>)>>}

\* what a fetched job that is "completed" may hold
Jobs ==
    {[output_text |-> <<t>>, output |-> <<>>, raises |-> FALSE] :
        t \in OutputTexts}
    \cup {[output_text |-> ot, output |-> o, raises |-> FALSE] :
            ot \in {<<>>, << <<>> >>}, o \in Outputs}
    \cup {[output_text |-> <<>>, output |-> <<ReasoningItem>>, raises |-> TRUE]}

\* what a fetched job that failed may hold: nothing, or a partial text
FailedJobs ==
    {[output_text |-> <<>>, output |-> <<>>, raises |-> FALSE],
     [output_text |-> << <<"a">> >>, output |-> <<>>, raises |-> FALSE]}

NoJob == [output_text |-> <<>>, output |-> <<>>, raises |-> FALSE]

Init ==
    /\ pc = "submit" /\ pct = 0 /\ bar = <<>> /\ elapsed = 0
    /\ status = "none" /\ job = NoJob /\ output_text = <<>>
    /\ sanitized_output = <<>> /\ rendered = <<>> /\ sanitize_calls = 0
    /\ TextIdle /\ UrlIdle

\* client.responses.create raises, or the job has no id: st.error, st.stop
SubmitFails ==
    /\ pc = "submit"
    /\ pc' = "stopped"
    /\ UNCHANGED <<pct, bar, elapsed, status, job, output_text,
                   sanitized_output, rendered, sanitize_calls>>
    /\ UNCHANGED <<textVars, urlVars>>

\* the job is submitted; the bar is created at 0 and set to pct = 5
Submit ==
    /\ pc = "submit"
    /\ pct' = InitialPct
    /\ bar' = <<InitialPct>>
    /\ elapsed' = 0
    /\ pc' = "polling"
    /\ UNCHANGED <<status, job, output_text, sanitized_output, rendered,
                   sanitize_calls>>
    /\ UNCHANGED <<textVars, urlVars>>

\* time.sleep(3) and the fetch: the clock moves on
Tick ==
    /\ pc = "polling"
    /\ \E d \in {PollInterval, PollInterval + SlowFetch} :
          /\ elapsed + d <= MaxElapsed
          /\ elapsed' = elapsed + d

\* both client.responses.get and .retrieve raise: continue
PollFetchError ==
    /\ Tick
    /\ UNCHANGED <<pc, pct, bar, status, job, output_text, sanitized_output,
                   rendered, sanitize_calls>>
    /\ UNCHANGED <<textVars, urlVars>>

\* status in ("queued", "in_progress", "unknown")
PollPending ==
    /\ Tick
    /\ \E s \in PendingStatuses : status' = s
    /\ pct' = Min(PendingCap,
                  Max(pct, PendingBase + (elapsed' \div PendingDivisor)))
    /\ bar' = <<pct'>>
    /\ job' = NoJob
    /\ UNCHANGED <<pc, output_text, sanitized_output, rendered,
                   sanitize_calls>>
    /\ UNCHANGED <<textVars, urlVars>>

\* status == "completed": the bar goes to 100 and the loop breaks
PollCompleted ==
    /\ Tick
    /\ status' = "completed"
    /\ bar' = <<FullPct>>
    /\ job' \in Jobs
    /\ pc' = "retrieve"
    /\ UNCHANGED <<pct, output_text, sanitized_output, rendered,
                   sanitize_calls>>
    /\ UNCHANGED <<textVars, urlVars>>

\* a variant without the st.stop(): the run goes on to the retrieval
PollFailedFallsThrough ==
    /\ Tick
    /\ \E s \in FailedStatuses : status' = s
    /\ bar' = <<FullPct>>
    /\ job' \in FailedJobs
    /\ pc' = "retrieve"
    /\ UNCHANGED <<pct, output_text, sanitized_output, rendered,
                   sanitize_calls>>
    /\ UNCHANGED <<textVars, urlVars>>

\* status in ("failed", "cancelled", "errored"): st.error, st.stop
PollFailed ==
    /\ Tick
    /\ \E s \in FailedStatuses : status' = s
    /\ bar' = <<FullPct>>
    /\ job' \in FailedJobs
    /\ pc' = "stopped"
    /\ UNCHANGED <<pct, output_text, sanitized_output, rendered,
                   sanitize_calls>>
    /\ UNCHANGED <<textVars, urlVars>>

\* any other status: pct = min(98, pct + 1)
PollOther ==
    /\ Tick
    /\ \E s \in OtherStatuses : status' = s
    /\ pct' = Min(OtherCap, pct + 1)
    /\ bar' = <<pct'>>
    /\ job' = NoJob
    /\ UNCHANGED <<pc, output_text, sanitized_output, rendered,
                   sanitize_calls>>
    /\ UNCHANGED <<textVars, urlVars>>

\* the final text is read off the job; with none: st.error, st.stop
RetrieveText ==
    /\ pc = "retrieve"
    /\ output_text' = RetrievedText(job)
    /\ pc' = IF output_text' = <<>> \/ output_text'[1] = <<>>
             THEN "stopped" ELSE "sanitize"
    /\ UNCHANGED <<pct, bar, elapsed, status, job, sanitized_output, rendered,
                   sanitize_calls>>
    /\ UNCHANGED <<textVars, urlVars>>

\* sanitized_output = _final_sanitize(output_text); st.markdown(...)
SanitizeAndRender ==
    /\ pc = "sanitize"
    /\ sanitized_output' = <<_final_sanitize(output_text[1])>>
    /\ sanitize_calls' = sanitize_calls + 1
    /\ rendered' = sanitized_output'
    /\ pc' = "done"
    /\ UNCHANGED <<pct, bar, elapsed, status, job, output_text>>
    /\ UNCHANGED <<textVars, urlVars>>

Next ==
    \/ SubmitFails
    \/ Submit
    \/ PollFetchError
    \/ PollPending
    \/ PollCompleted
    \/ PollFailed
    \/ PollOther
    \/ RetrieveText
    \/ SanitizeAndRender

Spec == Init /\ [][Next]_vars

----------------------------------------------------------------------------
(* Properties *)

\* a Markdown link [label](target) that starts at i, the target possibly
\* empty as it is after a target was cleaned to nothing: the positions of its
\* "]" and of its ")", or <<0, 0>> when there is none
LinkAt(s, i) ==
    IF s[i] # "[" THEN <<0, 0>>
    ELSE LET j == FirstIn(s, i + 1, {"]"}) IN
         IF ~(j > i + 1 /\ j < Len(s) /\ s[j + 1] = "(") THEN <<0, 0>>
         ELSE LET k == FirstIn(s, j + 2, {")"}) IN
              IF k <= Len(s) THEN <<j, k>> ELSE <<0, 0>>

\* the labels of the Markdown links of s, in order of appearance
RECURSIVE LabelsFrom(_, _)
LabelsFrom(s, i) ==
    IF i > Len(s) THEN <<>>
    ELSE LET m == LinkAt(s, i) IN
         IF m[1] > 0
         THEN <<Slice(s, i + 1, m[1] - 1)>> \o LabelsFrom(s, m[2] + 1)
         ELSE LabelsFrom(s, i + 1)

LabelsOf(s) == LabelsFrom(s, 1)

\* the targets of the Markdown links of s, in order of appearance
RECURSIVE TargetsFrom(_, _)
TargetsFrom(s, i) ==
    IF i > Len(s) THEN <<>>
    ELSE LET m == LinkAt(s, i) IN
         IF m[1] > 0
         THEN <<Slice(s, m[1] + 2, m[2] - 1)>> \o TargetsFrom(s, m[2] + 1)
         ELSE TargetsFrom(s, i + 1)

LinkTargetsOf(s) == TargetsFrom(s, 1)

\* the bare http(s):// URLs of s, in order of appearance
RECURSIVE BareFrom(_, _)
BareFrom(s, i) ==
    IF i > Len(s) THEN <<>>
    ELSE LET e == BareUrlMatchEnd(s, i) IN
         IF e > 0 THEN <<Slice(s, i, e)>> \o BareFrom(s, e + 1)
         ELSE BareFrom(s, i + 1)

BareUrlsOf(s) == BareFrom(s, 1)

Contains(s, cls) == \E i \in 1..Len(s) : s[i] \in cls

PipelineDone == stage \in {"sanitized", "resanitized"}

Invisible == _ZERO_WIDTH_BIDI \cup _UNICODE_SPACES

\* C1: sanitizing the result of _final_sanitize once more gives the same
\* text: sanitize(sanitize(T)) = sanitize(T) for every input T.
SanitizeIsIdempotent == stage = "resanitized" => resanitized = sanitized

IsPrefix(p, s) == Len(p) <= Len(s) /\ \A k \in 1..Len(p) : s[k] = p[k]

\* C2: _normalize_unicode_text leaves every URL of its input as it was: the
\* text has as many bare http(s):// URLs after it as before it, each
\* starting with the whole of the URL it was, and the targets of the
\* Markdown links are the same after it as before it.  Stated for the texts
\* that are in NFKC form already and hold none of the invisible characters
\* the normalizer removes, so that a URL differs only if the spacing steps
\* changed it.
NormalizerKeepsUrls ==
    (/\ stage # "raw"
     /\ NFKC(md_text) = md_text
     /\ ~Contains(md_text, Invisible \cup {SoftHyphen})) =>
        /\ Len(BareUrlsOf(normalized)) = Len(BareUrlsOf(md_text))
        /\ \A k \in 1..Len(BareUrlsOf(md_text)) :
              IsPrefix(BareUrlsOf(md_text)[k], BareUrlsOf(normalized)[k])
        /\ LinkTargetsOf(normalized) = LinkTargetsOf(md_text)

\* C3: the Markdown-link pass followed by the bare-URL pass never changes the
\* label of a Markdown link, whatever the label holds.
SweepKeepsLabels == PipelineDone => LabelsOf(sanitized) = LabelsOf(normalized)

\* C9: the bare-URL pass leaves every link target that the Markdown-link pass
\* wrote unchanged.
BareUrlPassKeepsLinkTargets ==
    PipelineDone => LinkTargetsOf(sanitized) = LinkTargetsOf(linked)

TextFragmentMarker == <<"#", ":", "~", ":", "t", "e", "x", "t", "=">>

HasTextFragment(s) == \E i \in 1..Len(s) : StartsWith(s, i, TextFragmentMarker)

\* C4: the result of _clean_url holds no text-fragment marker "#:~:text=",
\* in either letter case.
CleanUrlDropsTextFragment ==
    url_stage = "cleaned" => ~HasTextFragment(cleaned)

\* how many positions of s hold a member of dashes directly between a
\* word/closing-bracket and a word/opening-bracket character
TightDashCount(s, dashes) ==
    Cardinality({i \in 1..Len(s) : TightDashAt(s, i, dashes)})

\* how many positions of s hold a member of dashes with exactly one space on
\* each side, between such characters
SpacedDashCount(s, dashes) ==
    Cardinality({i \in 3..(Len(s) - 2) :
                    /\ s[i] \in dashes
                    /\ s[i - 1] = " " /\ s[i + 1] = " "
                    /\ DashBefore(s[i - 2]) /\ DashAfter(s[i + 2])})

\* the four hyphen-like characters the claim lists: "-", en dash, em dash,
\* figure dash
HyphenLike == {"-", "U+2013", "U+2014", "U+2012"}

\* C5, as stated: every hyphen-like character, the figure dash included, that
\* sits in the input directly between a word/closing-bracket character and a
\* word/opening-bracket character has one space on each side in the
\* normalizer's output, and none is left unspaced.
NormalizerSpacesHyphenLike ==
    stage # "raw" =>
        /\ SpacedDashCount(normalized, HyphenLike)
               >= TightDashCount(md_text, HyphenLike)
        /\ TightDashCount(normalized, HyphenLike) = 0

\* C5, amended: every ASCII hyphen, en dash or em dash (not the figure dash)
\* that sits in the NFKC form of the input directly between a
\* word/closing-bracket character and a word/opening-bracket character has
\* one space on each side in the normalizer's output, and none is left
\* unspaced.
NormalizerSpacesDashes ==
    stage # "raw" =>
        /\ SpacedDashCount(normalized, SpacedDashes)
               >= TightDashCount(NFKC(md_text), SpacedDashes)
        /\ TightDashCount(normalized, SpacedDashes) = 0

\* a text with an en dash directly between a closing bracket and a word
\* character has been normalized
NormalizerSpacesDashesWitness ==
    /\ stage = "normalized"
    /\ \E i \in 2..Len(md_text) :
          md_text[i] = "U+2013" /\ md_text[i - 1] = ")"
    /\ TightDashCount(md_text, {"U+2013"}) > 0

\* C6: no zero-width/bidi control character and no exotic space is left in
\* the output of _final_sanitize, nor after any stage of the pipeline that
\* follows the normalizer.
SanitizedHasNoInvisibles ==
    /\ stage # "raw" => ~Contains(normalized, Invisible)
    /\ stage \notin {"raw", "normalized"} => ~Contains(linked, Invisible)
    /\ PipelineDone => ~Contains(sanitized, Invisible)

\* a text holding a zero-width character and an exotic space that NFKC
\* keeps has gone through the whole pipeline
SanitizedHasNoInvisiblesWitness ==
    /\ stage = "sanitized"
    /\ Contains(md_text, _ZERO_WIDTH_BIDI)
    /\ Contains(md_text, {"U+1680"})
    /\ sanitized # <<>>

\* C7: the result of _clean_url holds no whitespace character and does not
\* end with one of ) , . ; : ! ?
CleanUrlIsContiguous ==
    url_stage = "cleaned" =>
        /\ ~Contains(cleaned, SpaceChars)
        /\ cleaned # <<>> => cleaned[Len(cleaned)] \notin TrailingPunctuation

\* a URL with whitespace inside and trailing punctuation has been cleaned
\* to a non-empty result
CleanUrlIsContiguousWitness ==
    /\ url_stage = "cleaned"
    /\ Contains(url, SpaceChars)
    /\ url[Len(url)] \in TrailingPunctuation
    /\ cleaned # <<>>

\* C8: _final_sanitize is invoked at most once in a run; when it is, the loop
\* has observed "completed", the text retrieved from that job is non-empty,
\* it is the argument, and what is rendered is the result.  A run that
\* reaches the end has invoked it exactly once.  A run that stopped, or whose
\* job failed, has not invoked it and has rendered nothing.
SanitizeOnceOnFinalText ==
    /\ sanitize_calls <= 1
    /\ sanitize_calls = 1 =>
          /\ status = "completed"
          /\ output_text = RetrievedText(job)
          /\ output_text # <<>> /\ output_text[1] # <<>>
          /\ sanitized_output = <<_final_sanitize(output_text[1])>>
          /\ rendered = sanitized_output
    /\ pc = "done" => sanitize_calls = 1
    /\ (pc = "stopped" \/ status \in FailedStatuses) =>
          sanitize_calls = 0 /\ rendered = <<>>
    /\ sanitize_calls = 0 => rendered = <<>> /\ sanitized_output = <<>>

\* a run that met a pending poll and then "completed" has rendered a text
\* that the sanitizer changed
SanitizeOnceOnFinalTextWitness ==
    /\ pc = "done"
    /\ pct > InitialPct
    /\ rendered # <<>>
    /\ rendered # output_text

TerminalStatuses == {"completed"} \cup FailedStatuses

\* C10: each value passed to the progress bar is at least the one before; the
\* first is 5, and 100 is passed only when a terminal status is observed.
ProgressNeverDecreases ==
    [][/\ (bar # <<>> /\ bar' # <<>>) => bar'[1] >= bar[1]
       /\ (bar = <<>> /\ bar' # <<>>) => bar'[1] = InitialPct
       /\ (bar' # <<>> /\ bar'[1] = FullPct) => status' \in TerminalStatuses]_vars

====
